---- MODULE Spec2Model ----
(***************************************************************************)
(* The retrieve -> generate question-answering pipeline of backend/agent.py *)
(* behind the chat and health endpoints of backend/server.py or the tool    *)
(* handlers of backend/mcp_server.py, with the ingestion job of             *)
(* backend/ingest.py as the only writer of the vector index.                *)
(*                                                                          *)
(* Python strings are TLA+ strings, Python lists are sequences, Python      *)
(* dicts are functions on a set of string keys.  A metadata value is a      *)
(* tagged record (it is an int or a str in Python).                         *)
(***************************************************************************)
EXTENDS Integers, Sequences, FiniteSets, TLC

(* ------------------------------ bounds -------------------------------- *)

\* Number of queries the model follows (each runs the pipeline once).
NumQueries == 2

\* Number of uploads of the ingestion job the model follows.
MaxUploads == 1

(* ------------------------- program constants -------------------------- *)

\* k of vectorstore.similarity_search(last_message, k=10)
K == 10

\* the character budget of content_preview
PreviewLen == 200

(* ------------------------------ state --------------------------------- *)

VARIABLES
    env,        \* the environment variables that are set
    server,     \* "off", "up" (agent.py imported) or "refused" (its import raised)
    handles,    \* the client handles the import of agent.py has built
    worked,     \* the steps runs of the ingestion job have done
    index,      \* the passages the vector index holds, in insertion order
    uploads,    \* uploads of the ingestion job so far
    adapter,    \* the process that serves: "http" (server.py) or "tool" (mcp_server.py)
    binding,    \* what the adapter calls as run_agent: the agent's, a test's patch
                \* or, in the tool server's demo mode, get_demo_response
    req,        \* per request: what the caller sent, NoReq before it arrives
    pc,         \* per query: START, RETRIEVING, GENERATING, DONE or FAILED
    state,      \* per query: the AgentState of its graph run
    searchLog,  \* per query: the calls of vectorstore.similarity_search
    llmLog,     \* per query: the calls of llm.invoke
    ret,        \* per query: how run_agent ended
    resp        \* per request: the reply the caller gets

vars == <<env, server, index, uploads, handles, worked, adapter, binding, req, pc, state, searchLog, llmLog, ret, resp>>

(* --------------------------- Python values ---------------------------- *)

PyStr(s) == [t |-> "str", s |-> s, n |-> 0]
PyInt(n) == [t |-> "int", s |-> "", n |-> n]

Digit(d) == SubSeq("0123456789", d + 1, d + 1)

RECURSIVE NatToStr(_)
NatToStr(n) == IF n < 10 THEN Digit(n) ELSE NatToStr(n \div 10) \o Digit(n % 10)

\* str(v) of Python for the values above
Str(v) ==
    IF v.t = "str" THEN v.s
    ELSE IF v.n < 0 THEN "-" \o NatToStr(0 - v.n) ELSE NatToStr(v.n)

\* d.get(key, default)
Get(d, key, default) == IF key \in DOMAIN d THEN d[key] ELSE default

NoMeta == [k \in {} |-> PyStr("")]

Last(s) == s[Len(s)]

\* sep.join(parts)
RECURSIVE Join(_, _)
Join(sep, parts) ==
    IF parts = <<>> THEN ""
    ELSE IF Len(parts) = 1 THEN parts[1]
    ELSE parts[1] \o sep \o Join(sep, Tail(parts))

\* s[:n]
Prefix(s, n) == IF Len(s) <= n THEN s ELSE SubSeq(s, 1, n)

(* ------------------------------- texts -------------------------------- *)

\* A text of n characters; the character at position p is the digit p % 10.
RECURSIVE Txt(_)
Txt(n) ==
    IF n <= 10 THEN SubSeq("1234567890", 1, n) ELSE "1234567890" \o Txt(n - 10)

Doc(text, meta) == [page_content |-> text, metadata |-> meta]

(* ------------------------ the vector index ---------------------------- *)

\* The embedding of a text, reduced to one coordinate below EmbedRange.
EmbedRange == 7

Embed(text) == Len(text) % EmbedRange

Distance(query, doc) ==
    LET a == Embed(query)
        b == Embed(doc.page_content)
    IN  IF a >= b THEN a - b ELSE b - a

\* The passages of idx at distance d or more of the query, the nearest first,
\* passages at the same distance in index order.
RECURSIVE Ranked(_, _, _)
Ranked(idx, query, d) ==
    IF d >= EmbedRange THEN <<>>
    ELSE SelectSeq(idx, LAMBDA doc : Distance(query, doc) = d)
             \o Ranked(idx, query, d + 1)

\* vectorstore.similarity_search(query, k): the k nearest stored passages
SimilaritySearch(idx, query, k) ==
    LET all == Ranked(idx, query, 0)
    IN  IF Len(all) <= k THEN all ELSE SubSeq(all, 1, k)

(* --------------------------- agent.py --------------------------------- *)

HumanMessage(content) == [type |-> "human", content |-> content]
AIMessage(content) == [type |-> "ai", content |-> content]

\* The reference numbered from 0, as enumerate() counts.
SourceRefFromZero(i) == "[" \o Str(PyInt(i)) \o "]"

\* source_ref = f"[{i+1}]", i counting from 0
SourceRef(i) == "[" \o Str(PyInt(i + 1)) \o "]"

\* The preview with the cap compared by >=.
ContentPreviewAtCap(text) ==
    IF Len(text) >= PreviewLen THEN Prefix(text, PreviewLen) \o "..." ELSE text

\* doc.page_content[:200] + "..." if len(doc.page_content) > 200 else doc.page_content
ContentPreview(text) ==
    IF Len(text) > PreviewLen THEN Prefix(text, PreviewLen) \o "..." ELSE text

\* The document read from the filename field the ingestion job also writes.
DocumentOfFilename(doc) == Get(doc.metadata, "filename", PyStr("Unknown Document"))

\* doc.metadata.get("source", "Unknown Document")
DocumentOf(doc) == Get(doc.metadata, "source", PyStr("Unknown Document"))

\* str(doc.metadata.get("page", "N/A"))
PageOf(doc) == Str(Get(doc.metadata, "page", PyStr("N/A")))

\* the dict appended to sources for the doc enumerate() numbers i
SourceEntry(i, doc) ==
    [ref |-> SourceRef(i),
     document |-> DocumentOf(doc),
     page |-> PageOf(doc),
     content_preview |-> ContentPreview(doc.page_content)]

\* the string appended to context_with_sources
\* A context whose markers count from 2.
ContextEntryShifted(i, doc) == SourceRef(i + 1) \o " " \o doc.page_content

ContextEntry(i, doc) == SourceRef(i) \o " " \o doc.page_content

NonEmpty(doc) == doc.page_content # ""

\* The update of a retrieve that skips passages without text.
RetrieveUpdateSkipEmpty(docs) ==
    LET kept == SelectSeq(docs, NonEmpty)
    IN  [context |-> Join("\n\n", [p \in 1..Len(kept) |-> ContextEntry(p - 1, kept[p])]),
         sources |-> [p \in 1..Len(kept) |-> SourceEntry(p - 1, kept[p])]]

\* The update of a retrieve whose sources list lives at module level and is
\* never cleared: it still holds the citations of the first query.
RetrieveUpdateAccum(docs) ==
    LET earlier == IF pc[1] \in {"GENERATING", "DONE", "FAILED"}
                   THEN state[1].sources ELSE <<>>
    IN  [context |-> Join("\n\n", [p \in 1..Len(docs) |-> ContextEntry(p - 1, docs[p])]),
         sources |-> earlier \o [p \in 1..Len(docs) |-> SourceEntry(p - 1, docs[p])]]

\* The update retrieve returns for the docs the search returned.
RetrieveUpdate(docs) ==
    [context |-> Join("\n\n", [p \in 1..Len(docs) |-> ContextEntry(p - 1, docs[p])]),
     sources |-> [p \in 1..Len(docs) |-> SourceEntry(p - 1, docs[p])]]

\* The prompt of generate, its fixed instruction block abbreviated.
Prompt(context, question) ==
    "Context (with source references):\n" \o context
        \o "\n\nQuestion: " \o question \o "\n\nAnswer with citations:"

\* A generate that keeps only the citations the reply refers to: none.
GenerateUpdateCited(reply) == [messages |-> <<AIMessage(reply)>>, sources |-> <<>>]

\* The update generate returns for the model's reply.
GenerateUpdate(reply) == [messages |-> <<AIMessage(reply)>>]

\* The graph writes a node's update over the state, key by key.
Merge(st, update) ==
    [key \in DOMAIN st |-> IF key \in DOMAIN update THEN update[key] ELSE st[key]]

\* workflow.set_entry_point("retrieve")
EntryPoint == "RETRIEVING"

\* Edges with a retry: generate leads back to retrieve.
EdgeRetry(node) == IF node = "RETRIEVING" THEN "GENERATING" ELSE "RETRIEVING"

\* workflow.add_edge("retrieve", "generate"); workflow.add_edge("generate", END)
Edge(node) == IF node = "RETRIEVING" THEN "GENERATING" ELSE "DONE"

\* inputs of run_agent
Inputs(query) ==
    [messages |-> <<HumanMessage(query)>>, context |-> "", sources |-> <<>>]

\* messages[-1].content
LastContent(st) == Last(st.messages).content

\* what run_agent returns for the final graph state
RunAgentResult(result) ==
    [t |-> "dict",
     d |-> [response |-> LastContent(result),
            sources |-> Get(result, "sources", <<>>)]]

(* --------------------------- server.py -------------------------------- *)

\* How a call of run_agent ends: it returns a value or raises.
Return(v) == [t |-> "return", value |-> v, msg |-> ""]
Raise(msg) == [t |-> "raise", value |-> PyStr(""), msg |-> msg]
NoOutcome == [t |-> "none", value |-> PyStr(""), msg |-> ""]

NoResponse == [status |-> 0, body |-> [k \in {} |-> ""]]

\* An error answered as an ordinary reply that carries the message.
HttpErrorAsReply(msg) == [status |-> 200, body |-> [response |-> msg, sources |-> <<>>]]

\* raise HTTPException(status_code=500, detail=str(e))
HttpError(msg) == [status |-> 500, body |-> [detail |-> msg]]

\* Source(**s) accepts s when its four fields are there and are strings.
SourceValid(s) ==
    /\ DOMAIN s = {"ref", "document", "page", "content_preview"}
    /\ s.document.t = "str"

\* The body of chat once run_agent has ended with outcome o.
ChatHandler(o) ==
    IF o.t = "raise" THEN HttpError(o.msg)
    ELSE IF o.value.t # "dict"
    THEN HttpError("string indices must be integers")
    ELSE IF "response" \notin DOMAIN o.value.d THEN HttpError("'response'")
    ELSE IF "sources" \notin DOMAIN o.value.d THEN HttpError("'sources'")
    ELSE LET srcs == o.value.d.sources
         IN  IF \E p \in DOMAIN srcs : ~SourceValid(srcs[p])
             THEN HttpError("validation error for Source")
             ELSE [status |-> 200,
                   body |-> [response |-> o.value.d.response,
                             sources |-> [p \in DOMAIN srcs |->
                                 [ref |-> srcs[p].ref,
                                  document |-> srcs[p].document.s,
                                  page |-> srcs[p].page,
                                  content_preview |-> srcs[p].content_preview]]]]

\* server.run_agent as imported from the agent module.
RealAgent == [kind |-> "real", query |-> "", outcome |-> NoOutcome]

\* server.run_agent as the tests of the chat endpoint patch it: the query the
\* test sends and what the patched run_agent does.
StubCases ==
    {[kind |-> "patched",
      query |-> "What is the yield strength of A106 Grade B?",
      outcome |-> Return(PyStr("A106 Grade B has a minimum yield strength of 35,000 psi."))],
     [kind |-> "patched", query |-> "", outcome |-> Return(PyStr(""))],
     [kind |-> "patched", query |-> "test query", outcome |-> Raise("Agent processing failed")]}

\* A request body: JSON text that holds an object, or text that is not JSON.
NoFields == [key \in {} |-> PyStr("")]
Json(obj) == [json |-> TRUE, obj |-> obj]
NotJson == [json |-> FALSE, obj |-> NoFields]

\* The framework's validation of the body against class QueryRequest
\* (query: str), done before chat is called.
QueryRequest(body) ==
    IF ~body.json THEN [ok |-> FALSE, query |-> "", error |-> "json_invalid"]
    ELSE IF "query" \notin DOMAIN body.obj
    THEN [ok |-> FALSE, query |-> "", error |-> "missing"]
    ELSE IF body.obj["query"].t # "str"
    THEN [ok |-> FALSE, query |-> "", error |-> "string_type"]
    ELSE [ok |-> TRUE, query |-> body.obj["query"].s, error |-> ""]

\* The framework's reply to a body that fails validation.
ValidationErrorReply(error) == [status |-> 422, body |-> [detail |-> error]]

\* class HealthResponse: status is given, version has a default
HealthResponse(status) == [status |-> status, version |-> "1.0.0"]

\* GET /health: the handler and the reply the framework makes of its model
HealthHandler == [status |-> 200, body |-> HealthResponse("ok")]

(* ------------------------- mcp_server.py ------------------------------ *)

\* DEMO_MODE is set: the tool server answers with get_demo_response.
DemoAgent == [kind |-> "demo", query |-> "", outcome |-> NoOutcome]

\* get_demo_response(query): a fixed placeholder result
get_demo_response(query) ==
    [t |-> "dict",
     d |-> [response |-> "Demo mode: no live backend is connected.", sources |-> <<>>]]

\* A list of strings as an argument value.
PyList(items) == [t |-> "list", s |-> "", n |-> 0, items |-> items]

TextContent(text) == [type |-> "text", text |-> text]

\* What call_tool returns, and what the protocol server makes of an exception
\* that leaves it.
ToolResult(text) == [isError |-> FALSE, content |-> <<TextContent(text)>>]
ToolError(msg) == [isError |-> TRUE, content |-> <<TextContent(msg)>>]

\* call_tool up to its backend call: the reply when it returns before one,
\* else the query it runs and the heading of its output.
CallToolQuery(name, arguments) ==
    IF name = "query_steel_specs"
    THEN [run |-> TRUE, query |-> Get(arguments, "query", PyStr("")).s,
          head |-> "**Response:**\n", text |-> ""]
    ELSE IF name = "compare_materials"
    THEN LET materials == Get(arguments, "materials", PyList(<<>>)).items
             properties == Get(arguments, "properties",
                               PyList(<<"yield strength", "tensile strength">>)).items
             materials_str == Join(" and ", materials)
             props_str == IF properties # <<>> THEN Join(", ", properties)
                          ELSE "properties"
         IN  IF Len(materials) < 2
             THEN [run |-> FALSE, query |-> "", head |-> "",
                   text |-> "Error: Please provide at least 2 materials to compare."]
             ELSE [run |-> TRUE,
                   query |-> "Compare " \o materials_str \o " for " \o props_str,
                   head |-> "**Material Comparison: " \o materials_str \o "**\n\n",
                   text |-> ""]
    ELSE [run |-> FALSE, query |-> "", head |-> "", text |-> "Unknown tool: " \o name]

\* "- {ref} {document} (p. {page})" for every source, under a heading
SourcesText(sources) ==
    IF sources = <<>> THEN ""
    ELSE "**Sources:**\n"
         \o Join("", [p \in DOMAIN sources |->
                "- " \o sources[p].ref \o " " \o Str(sources[p].document)
                     \o " (p. " \o sources[p].page \o ")\n"])

\* call_tool from its backend call on: o is how the call ended.
CallToolReply(name, arguments, o) ==
    LET plan == CallToolQuery(name, arguments)
    IN  IF o.t = "raise" THEN ToolError(o.msg)
        ELSE IF o.value.t # "dict"
        THEN ToolResult(plan.head \o Str(o.value) \o "\n\n")
        ELSE ToolResult(plan.head \o o.value.d.response \o "\n\n"
                        \o SourcesText(o.value.d.sources))

(* --------------------------- ingest.py -------------------------------- *)

\* The position of the last "/" of s, 0 when it has none.
RECURSIVE LastSlash(_, _)
LastSlash(s, p) ==
    IF p = 0 THEN 0
    ELSE IF SubSeq(s, p, p) = "/" THEN p ELSE LastSlash(s, p - 1)

\* Path(source_path).name
PathName(s) == SubSeq(s, LastSlash(s, Len(s)) + 1, Len(s))

\* enrich_metadata for one doc; stamp is datetime.now().isoformat()
EnrichOne(doc, stamp) ==
    LET m0 == doc.metadata
        source_path == Get(m0, "source", PyStr(""))
        m1 == IF source_path.s # ""
              THEN ("filename" :> PyStr(PathName(source_path.s)))
                   @@ ("source" :> PyStr(PathName(source_path.s))) @@ m0
              ELSE m0
        page == Get(m1, "page", PyInt(0))
        m2 == ("page" :> PyInt(page.n + 1)) @@ m1
    IN  Doc(doc.page_content, ("ingested_at" :> PyStr(stamp)) @@ m2)

enrich_metadata(docs, stamp) == [p \in DOMAIN docs |-> EnrichOne(docs[p], stamp)]

\* Where the chunker finds the breakpoint of a text: none (0) in a short one,
\* the middle of a long one.
Breakpoint(text) == IF Len(text) <= 100 THEN 0 ELSE Len(text) \div 2

\* text_splitter.split_documents: a page with a breakpoint becomes two chunks
\* that keep the page's metadata.
RECURSIVE SplitDocuments(_)
SplitDocuments(docs) ==
    IF docs = <<>> THEN <<>>
    ELSE LET d == Head(docs)
             n == Len(d.page_content)
             cut == Breakpoint(d.page_content)
         IN  (IF cut > 0
              THEN <<Doc(SubSeq(d.page_content, 1, cut), d.metadata),
                     Doc(SubSeq(d.page_content, cut + 1, n), d.metadata)>>
              ELSE <<d>>) \o SplitDocuments(Tail(docs))

(* ----------------------------- inputs --------------------------------- *)

EnvVars == {"GOOGLE_API_KEY", "PINECONE_API_KEY"}

Slots == 1..NumQueries

Questions == {"", "What is the yield strength of A106 Grade B?"}

\* What the language model may answer.
Replies ==
    {"According to [1], the minimum yield strength is 35,000 psi.",
     "No source material is available."}

\* Passages whose metadata lacks the source, the page or both, an empty one,
\* and texts one character either side of the preview cap.
OddDocs ==
    <<Doc(Txt(PreviewLen), NoMeta),
      Doc(Txt(PreviewLen + 1), ("page" :> PyStr("iv"))),
      Doc("", ("source" :> PyStr("AISI_4140_DataSheet.pdf"))),
      Doc(Txt(PreviewLen - 1),
          ("source" :> PyStr("ASTM_A333.pdf")) @@ ("page" :> PyInt(10)))>>

\* More passages than one search returns.
BigIndex ==
    <<Doc("ASTM A106 Grade B: minimum yield strength 35,000 psi",
          ("source" :> PyStr("ASTM_A106.pdf")) @@ ("page" :> PyInt(5)))>>
    \o OddDocs
    \o [j \in 1..(K - 3) |->
           Doc(Txt(j), ("source" :> PyStr("ASTM_A333.pdf")) @@ ("page" :> PyInt(j)))]

\* What the index may hold when the service starts.
SeedIndexes == {<<>>, BigIndex}

\* What the loader may find under DATA_DIR (page numbers count from 0).
LoadedPages ==
    {<<>>,
     <<Doc("ASTM A53 Type E, Grade B: minimum yield strength 35,000 psi",
           ("source" :> PyStr("data/ASTM_A53.pdf")) @@ ("page" :> PyInt(0))),
       Doc(Txt(PreviewLen + 2),
           ("source" :> PyStr("data/nace/NACE_MR0175.pdf")) @@ ("page" :> PyInt(44)))>>}

\* The bodies a caller may post to /api/chat.
Bodies ==
    {Json("query" :> PyStr(q)) : q \in Questions} \cup {Json(NoFields), NotJson}

\* The tool calls a host may make: name and arguments.
ToolCalls ==
    {<<"query_steel_specs", NoFields>>,
     <<"compare_materials", NoFields>>}

NoReq == [route |-> "", tool |-> "", body |-> NotJson, query |-> "", sent |-> FALSE]

NoState == [messages |-> <<>>, context |-> "", sources |-> <<>>]

Init ==
    /\ env \in SUBSET EnvVars
    /\ server = "off"
    /\ index \in SeedIndexes
    /\ uploads = 0
    /\ handles = {}
    /\ worked = {}
    /\ adapter \in {"http", "tool"}
    /\ binding \in (IF adapter = "http" THEN {RealAgent} \cup StubCases
                    ELSE {RealAgent, DemoAgent})
    /\ req = [i \in Slots |-> NoReq]
    /\ pc = [i \in Slots |-> "START"]
    /\ state = [i \in Slots |-> NoState]
    /\ searchLog = [i \in Slots |-> <<>>]
    /\ llmLog = [i \in Slots |-> <<>>]
    /\ ret = [i \in Slots |-> NoOutcome]
    /\ resp = [i \in Slots |-> NoResponse]

(* ----------------------------- actions -------------------------------- *)

\* The client handles of agent.py, in the order it builds them.
AllHandles == {"llm", "embeddings", "vectorstore"}

\* The handles the import of agent.py may get built under environment e: none
\* when GOOGLE_API_KEY is not set (it raises first); all of them otherwise,
\* or, without PINECONE_API_KEY, the first two when the construction of the
\* vector store raises for want of the key (agent.py itself never reads it).
BuiltHandles(e) ==
    IF "GOOGLE_API_KEY" \notin e THEN {{}}
    ELSE IF "PINECONE_API_KEY" \in e THEN {AllHandles}
    ELSE {{"llm", "embeddings"}, AllHandles}

\* Import of agent.py (server.py and mcp_server.py both import it): the
\* process serves when the import has not raised.
Startup ==
    /\ server = "off"
    /\ \E made \in BuiltHandles(env) :
          /\ handles' = made
          /\ server' = IF made = AllHandles THEN "up" ELSE "refused"
    /\ UNCHANGED <<env, index, uploads, worked, adapter, binding, req, pc, state, searchLog, llmLog, ret, resp>>

\* The steps a run of ingest.py does on the pages the loader returns under
\* environment e: none when the import raises (no GOOGLE_API_KEY) or there is
\* no page; PINECONE_API_KEY is looked at after the chunking.
IngestSteps(e, pages) ==
    IF "GOOGLE_API_KEY" \notin e \/ pages = <<>> THEN {}
    ELSE {"load", "enrich", "chunk"}
         \cup (IF "PINECONE_API_KEY" \in e THEN {"upload"} ELSE {})

\* One run of ingest.py: ingest_data over the pages the loader returns.  It
\* uploads nothing when a key or the pages are missing.
Ingest(pages) ==
    /\ uploads < MaxUploads
    /\ LET stamp == "run-" \o Str(PyInt(uploads + 1))
           docs == enrich_metadata(pages, stamp)
           chunks == SplitDocuments(docs)
           steps == IngestSteps(env, pages)
       IN  /\ worked' = worked \cup steps
           /\ IF "upload" \in steps
              THEN /\ index' = index \o chunks
                   /\ uploads' = uploads + 1
              ELSE UNCHANGED <<index, uploads>>
    /\ UNCHANGED <<env, server, handles, adapter, binding, req, pc, state, searchLog, llmLog, ret, resp>>

\* Queries are numbered in the order they arrive.
Free(i) == req[i] = NoReq /\ (IF i = 1 THEN TRUE ELSE req[i - 1] # NoReq)

\* POST /api/chat: the body is validated; a valid one reaches chat, which
\* calls run_agent, which builds the inputs and enters the graph at retrieve;
\* any other is answered by the framework and chat is not called.
Chat(i, body) ==
    /\ adapter = "http"
    /\ server = "up"
    /\ Free(i)
    /\ LET request == QueryRequest(body)
       IN  /\ req' = [req EXCEPT ![i] = [route |-> "POST /api/chat", tool |-> "", body |-> body,
                                         query |-> request.query, sent |-> TRUE]]
           /\ IF request.ok
              THEN /\ binding.kind = "real"
                   /\ state' = [state EXCEPT ![i] = Inputs(request.query)]
                   /\ pc' = [pc EXCEPT ![i] = EntryPoint]
                   /\ UNCHANGED resp
              ELSE /\ resp' = [resp EXCEPT ![i] = ValidationErrorReply(request.error)]
                   /\ UNCHANGED <<state, pc>>
    /\ UNCHANGED <<env, server, index, uploads, handles, worked, adapter, binding, searchLog, llmLog, ret>>

\* One state shared by all graph runs at module level: a node gets the state
\* the latest query to arrive wrote.
NodeStateShared(i) ==
    LET running == {j \in DOMAIN state : state[j].messages # <<>>}
    IN  state[CHOOSE j \in running : \A k \in running : k <= j]

\* The state the graph hands to a node of query i.
NodeState(i) == state[i]

\* The adapter's reply once the run_agent call of request i has ended with o.
Caller(i, o) ==
    IF req[i].route = "call_tool"
    THEN CallToolReply(req[i].tool, req[i].body.obj, o)
    ELSE ChatHandler(o)

\* An exception swallowed in the node: the graph goes on with what it has.
StageSwallowed(i, msg) ==
    /\ pc' = [pc EXCEPT ![i] = IF pc[i] = "RETRIEVING" THEN "GENERATING" ELSE "DONE"]
    /\ ret' = [ret EXCEPT ![i] =
           IF pc[i] = "RETRIEVING" THEN @ ELSE Return(RunAgentResult(state[i]))]
    /\ resp' = [resp EXCEPT ![i] =
           IF pc[i] = "RETRIEVING" THEN @ ELSE Caller(i, Return(RunAgentResult(state[i])))]
    /\ UNCHANGED state

\* An exception raised in a node of query i leaves the graph and run_agent and
\* reaches the adapter: chat catches it, call_tool lets it through.
StageRaised(i, msg) ==
    /\ pc' = [pc EXCEPT ![i] = "FAILED"]
    /\ ret' = [ret EXCEPT ![i] = Raise(msg)]
    /\ resp' = [resp EXCEPT ![i] = Caller(i, Raise(msg))]
    /\ UNCHANGED state

\* The retrieve node of query i; the search returns or raises, and it cannot
\* return when the key of the index is not set.
Retrieve(i, ok) ==
    /\ pc[i] = "RETRIEVING"
    /\ ok => "PINECONE_API_KEY" \in env
    /\ LET last_message == LastContent(NodeState(i))
           docs == IF ok THEN SimilaritySearch(index, last_message, K) ELSE <<>>
       IN  /\ searchLog' = [searchLog EXCEPT ![i] = Append(@,
                  [query |-> last_message, seen |-> IF ok THEN index ELSE <<>>,
                   ok |-> ok, docs |-> docs])]
           /\ IF ok
              THEN /\ state' = [state EXCEPT ![i] = Merge(NodeState(i), RetrieveUpdate(docs))]
                   /\ pc' = [pc EXCEPT ![i] = Edge("RETRIEVING")]
                   /\ UNCHANGED <<ret, resp>>
              ELSE StageRaised(i, "index unreachable")
    /\ UNCHANGED <<env, server, index, uploads, handles, worked, adapter, binding, req, llmLog>>

\* The generate node of query i, then the return of run_agent and of chat; the
\* model call returns reply or raises.
Generate(i, ok, reply) ==
    /\ pc[i] = "GENERATING"
    /\ LET context == NodeState(i).context
           question == LastContent(NodeState(i))
           result == Merge(NodeState(i), GenerateUpdate(reply))
       IN  /\ llmLog' = [llmLog EXCEPT ![i] = Append(@,
                  [prompt |-> Prompt(context, question), ok |-> ok,
                   reply |-> IF ok THEN reply ELSE ""])]
           /\ IF ok
              THEN /\ state' = [state EXCEPT ![i] = result]
                   /\ pc' = [pc EXCEPT ![i] = Edge("GENERATING")]
                   /\ IF Edge("GENERATING") = "DONE"
                      THEN /\ ret' = [ret EXCEPT ![i] = Return(RunAgentResult(result))]
                           /\ resp' = [resp EXCEPT ![i] =
                                  Caller(i, Return(RunAgentResult(result)))]
                      ELSE UNCHANGED <<ret, resp>>
              ELSE StageRaised(i, "model call failed")
    /\ UNCHANGED <<env, server, index, uploads, handles, worked, adapter, binding, req, searchLog>>

\* POST /api/chat as the endpoint's tests run it: run_agent is patched, no
\* stage runs.
ChatPatched(i) ==
    /\ adapter = "http"
    /\ server = "up"
    /\ binding.kind = "patched"
    /\ Free(i)
    /\ req' = [req EXCEPT ![i] =
           [route |-> "POST /api/chat", tool |-> "", body |-> Json("query" :> PyStr(binding.query)),
            query |-> binding.query, sent |-> TRUE]]
    /\ ret' = [ret EXCEPT ![i] = binding.outcome]
    /\ resp' = [resp EXCEPT ![i] = ChatHandler(binding.outcome)]
    /\ UNCHANGED <<env, server, index, uploads, handles, worked, adapter, binding, pc, state, searchLog, llmLog>>

\* HAS_REAL_BACKEND of mcp_server.py
HAS_REAL_BACKEND == binding.kind = "real"

\* A tool call of the host: call_tool(name, arguments).
ToolCall(i, name, arguments) ==
    /\ adapter = "tool"
    /\ server = "up"
    /\ Free(i)
    /\ LET plan == CallToolQuery(name, arguments)
       IN  /\ req' = [req EXCEPT ![i] = [route |-> "call_tool", tool |-> name,
                                         body |-> Json(arguments),
                                         query |-> plan.query, sent |-> TRUE]]
           /\ IF ~plan.run
              THEN /\ resp' = [resp EXCEPT ![i] = ToolResult(plan.text)]
                   /\ UNCHANGED <<state, pc>>
              ELSE IF HAS_REAL_BACKEND
              THEN /\ state' = [state EXCEPT ![i] = Inputs(plan.query)]
                   /\ pc' = [pc EXCEPT ![i] = EntryPoint]
                   /\ UNCHANGED resp
              ELSE /\ resp' = [resp EXCEPT ![i] = CallToolReply(name, arguments,
                                      Return(get_demo_response(plan.query)))]
                   /\ UNCHANGED <<state, pc>>
    /\ UNCHANGED <<env, server, index, uploads, handles, worked, adapter, binding, searchLog, llmLog, ret>>

\* GET /health: answered by the handler alone, patched run_agent or not.
Health(i) ==
    /\ adapter = "http"
    /\ server = "up"
    /\ Free(i)
    /\ req' = [req EXCEPT ![i] = [route |-> "GET /health", tool |-> "", body |-> NotJson,
                                     query |-> "", sent |-> TRUE]]
    /\ resp' = [resp EXCEPT ![i] = HealthHandler]
    /\ UNCHANGED <<env, server, index, uploads, handles, worked, adapter, binding, pc, state, searchLog, llmLog, ret>>

Next ==
    \/ Startup
    \/ \E pages \in LoadedPages : Ingest(pages)
    \/ \E i \in Slots, body \in Bodies : Chat(i, body)
    \/ \E i \in Slots, ok \in BOOLEAN : Retrieve(i, ok)
    \/ \E i \in Slots, ok \in BOOLEAN, reply \in Replies : Generate(i, ok, reply)
    \/ \E i \in Slots : ChatPatched(i)
    \/ \E i \in Slots : Health(i)
    \/ \E i \in Slots, call \in ToolCalls : ToolCall(i, call[1], call[2])

Spec == Init /\ [][Next]_vars

(* ------------------------------ claims -------------------------------- *)

Searched(i) == Len(searchLog[i]) >= 1
SearchOk(i) == Searched(i) /\ searchLog[i][1].ok
SearchFailed(i) == Searched(i) /\ ~searchLog[i][1].ok
Asked(i) == Len(llmLog[i]) >= 1
AskOk(i) == Asked(i) /\ llmLog[i][1].ok
\* the passages the search of query i returned
DocsOf(i) == searchLog[i][1].docs
\* the requests for POST /api/chat
IsChat(i) == req[i].route = "POST /api/chat"

\* The stage calls a query has made, by where it stands.
StageCalls(i) ==
    /\ pc[i] \in {"START", "RETRIEVING"} => ~Searched(i) /\ ~Asked(i)
    /\ pc[i] = "GENERATING" => Len(searchLog[i]) = 1 /\ SearchOk(i) /\ ~Asked(i)
    /\ pc[i] = "DONE" =>
          Len(searchLog[i]) = 1 /\ SearchOk(i) /\ Len(llmLog[i]) = 1 /\ AskOk(i)
    /\ pc[i] = "FAILED" =>
          /\ Len(searchLog[i]) = 1
          /\ \/ SearchFailed(i) /\ ~Asked(i)
             \/ SearchOk(i) /\ Len(llmLog[i]) = 1 /\ ~AskOk(i)

\* The steps a query may take.
StageStep(i) ==
    \/ pc'[i] = pc[i] /\ searchLog'[i] = searchLog[i] /\ llmLog'[i] = llmLog[i]
    \/ pc[i] = "START" /\ pc'[i] = "RETRIEVING"
          /\ searchLog'[i] = searchLog[i] /\ llmLog'[i] = llmLog[i]
    \/ pc[i] = "RETRIEVING" /\ Len(searchLog'[i]) = 1 /\ llmLog'[i] = llmLog[i]
          /\ pc'[i] = (IF searchLog'[i][1].ok THEN "GENERATING" ELSE "FAILED")
    \/ pc[i] = "GENERATING" /\ searchLog'[i] = searchLog[i] /\ Len(llmLog'[i]) = 1
          /\ pc'[i] = (IF llmLog'[i][1].ok THEN "DONE" ELSE "FAILED")

\* C1: every query follows START -> RETRIEVING -> GENERATING -> DONE: the search
\* is called once, before the model; the model is called once, after every
\* search that returned (with no passage too); no stage is entered twice; and
\* FAILED is final and entered only from RETRIEVING or GENERATING.
C1_Pipeline ==
    /\ [](\A i \in Slots : StageCalls(i))
    /\ [][\A i \in Slots : StageStep(i)]_vars

\* A query is done on a search that returned nothing while another has failed.
C1_Witness ==
    \E i, j \in Slots :
        /\ pc[i] = "DONE" /\ DocsOf(i) = <<>>
        /\ pc[j] = "FAILED"

\* C2: when the search of a query raised, its model is never called and the
\* caller gets no citations.
C2_RetrievalFailure ==
    \A i \in Slots : SearchFailed(i) =>
        /\ ~Asked(i)
        /\ ret[i].t = "raise"
        /\ IsChat(i) => resp[i].status = 500 /\ "sources" \notin DOMAIN resp[i].body
        /\ ~IsChat(i) => resp[i] = ToolError(ret[i].msg)

\* The search of a query raised and the query is over.
C2_Witness == \E i \in Slots : SearchFailed(i) /\ pc[i] = "FAILED"

\* C3: a query whose stage failed is answered by an error with a message and
\* never by an answer or citations; every reply is the answer with its
\* citations or an error, nothing in between.
C3_AllOrNothing ==
    \A i \in Slots :
        /\ (IsChat(i) /\ resp[i] # NoResponse) =>
              \/ resp[i].status = 200 /\ DOMAIN resp[i].body = {"response", "sources"}
              \/ resp[i].status \in {422, 500} /\ DOMAIN resp[i].body = {"detail"}
        /\ (SearchFailed(i) \/ (Asked(i) /\ ~AskOk(i))) =>
              /\ ret[i].t = "raise"
              /\ IsChat(i) =>
                    /\ resp[i].status = 500
                    /\ DOMAIN resp[i].body = {"detail"}
                    /\ resp[i].body.detail # ""
              /\ ~IsChat(i) => resp[i] = ToolError(ret[i].msg) /\ ret[i].msg # ""

\* The model call failed after a search that returned citations.
C3_Witness ==
    \E i \in Slots :
        /\ pc[i] = "FAILED" /\ Asked(i) /\ ~AskOk(i)
        /\ state[i].sources # <<>>

\* the citations retrieve wrote into the state of query i
CitationsOf(i) == state[i].sources

\* the citations run_agent returned for query i
ResultCitations(i) == ret[i].value.d.sources

\* Citation c shows passage d: the text d begins with and the fields d has.
BuiltFrom(c, d) ==
    /\ Prefix(c.content_preview, PreviewLen) = Prefix(d.page_content, PreviewLen)
    /\ "source" \in DOMAIN d.metadata => c.document = d.metadata["source"]
    /\ "page" \in DOMAIN d.metadata =>
          c.page = (IF d.metadata["page"].t = "int"
                    THEN ToString(d.metadata["page"].n) ELSE d.metadata["page"].s)

\* C4: a query whose search returned N passages has N citations, the p-th
\* built from the p-th passage; with no passage the citation list and the
\* context are empty.
C4_CitationsMatchPassages ==
    \A i \in Slots : SearchOk(i) =>
        /\ Len(CitationsOf(i)) = Len(DocsOf(i))
        /\ \A p \in 1..Len(DocsOf(i)) : BuiltFrom(CitationsOf(i)[p], DocsOf(i)[p])
        /\ DocsOf(i) = <<>> => CitationsOf(i) = <<>> /\ state[i].context = ""
        /\ pc[i] = "DONE" =>
              /\ Len(ResultCitations(i)) = Len(DocsOf(i))
              /\ \A p \in 1..Len(DocsOf(i)) : BuiltFrom(ResultCitations(i)[p], DocsOf(i)[p])
              /\ IsChat(i) => Len(resp[i].body.sources) = Len(DocsOf(i))

\* A query is done on K passages, one of them without text.
C4_Witness ==
    \E i \in Slots :
        /\ pc[i] = "DONE" /\ Len(DocsOf(i)) = K
        /\ \E p \in 1..K : DocsOf(i)[p].page_content = ""

\* C5 as stated: the p-th citation's marker is the bare number p.
C5_BareMarkers ==
    \A i \in Slots : SearchOk(i) =>
        \A p \in 1..Len(CitationsOf(i)) : CitationsOf(i)[p].ref = ToString(p)

\* C5: the p-th citation's marker is the number p in square brackets, "[1]" to
\* "[N]" in retrieval order.
C5_BracketedMarkers ==
    \A i \in Slots : SearchOk(i) =>
        /\ \A p \in 1..Len(CitationsOf(i)) :
              CitationsOf(i)[p].ref = "[" \o ToString(p) \o "]"
        /\ pc[i] = "DONE" =>
              \A p \in 1..Len(ResultCitations(i)) :
                  ResultCitations(i)[p].ref = "[" \o ToString(p) \o "]"

\* A query is done with K citations.
C5_Witness == \E i \in Slots : pc[i] = "DONE" /\ Len(ResultCitations(i)) = K

\* C6: the preview of a passage longer than 200 characters is its first 200
\* characters and "..."; the preview of any other passage is the passage.
C6_Preview ==
    \A i \in Slots : SearchOk(i) =>
        \A p \in 1..Len(DocsOf(i)) :
            LET text == DocsOf(i)[p].page_content
                preview == CitationsOf(i)[p].content_preview
            IN  IF Len(text) > 200
                THEN /\ Len(preview) = 203
                     /\ SubSeq(preview, 1, 200) = SubSeq(text, 1, 200)
                     /\ SubSeq(preview, 201, 203) = "..."
                ELSE preview = text

\* One query retrieved passages of 0, 200 and 201 characters.
C6_Witness ==
    \E i \in Slots : SearchOk(i) /\
        \A n \in {0, 200, 201} :
            \E p \in 1..Len(DocsOf(i)) : Len(DocsOf(i)[p].page_content) = n

\* C7: a passage without the source or the page field does not make retrieve
\* raise: the document is "Unknown Document" without a source and the page is
\* "N/A" without a page; a field that is there is passed on, the page as a
\* string.
C7_MissingMetadata ==
    \A i \in Slots : SearchOk(i) =>
        /\ pc[i] = "FAILED" => Asked(i)
        /\ Len(CitationsOf(i)) = Len(DocsOf(i))
        /\ \A p \in 1..Len(DocsOf(i)) :
              LET meta == DocsOf(i)[p].metadata
                  c == CitationsOf(i)[p]
              IN  /\ c.document = (IF "source" \in DOMAIN meta
                                   THEN meta["source"]
                                   ELSE [t |-> "str", s |-> "Unknown Document", n |-> 0])
                  /\ c.page = (IF "page" \notin DOMAIN meta THEN "N/A"
                               ELSE IF meta["page"].t = "int"
                               THEN ToString(meta["page"].n) ELSE meta["page"].s)

\* One query retrieved a passage with no metadata, one with only a page and
\* one with only a source, and went on to generate.
C7_Witness ==
    \E i \in Slots : SearchOk(i) /\ pc[i] \in {"GENERATING", "DONE"} /\
        \A keys \in {{}, {"page"}, {"source"}} :
            \E p \in 1..Len(DocsOf(i)) : DOMAIN DocsOf(i)[p].metadata = keys

\* the index as the search of query i saw it
SeenBy(i) == searchLog[i][1].seen

AloneRetrieved(i) == RetrieveUpdate(SimilaritySearch(SeenBy(i), req[i].query, K))

\* C9: however queries interleave, the search query, the context, the
\* citations, the prompt and the answer of each are those of its own question:
\* its result is the one it produces alone on the same index and model reply.
C9_Isolation ==
    \A i \in Slots : (req[i].sent /\ binding.kind = "real") =>
        /\ pc[i] = "RETRIEVING" => state[i] = Inputs(req[i].query)
        /\ Searched(i) => searchLog[i][1].query = req[i].query
        /\ SearchOk(i) =>
              LET alone == AloneRetrieved(i)
              IN  /\ state[i].context = alone.context
                  /\ state[i].sources = alone.sources
                  /\ Asked(i) =>
                        llmLog[i][1].prompt = Prompt(alone.context, req[i].query)
                  /\ pc[i] = "DONE" =>
                        /\ ret[i].t = "return"
                        /\ ret[i].value.d.response = llmLog[i][1].reply
                        /\ ret[i].value.d.sources = alone.sources
                        /\ IsChat(i) => resp[i].body.response = llmLog[i][1].reply

\* A query that arrived later with another question is done while the earlier
\* one is between its two stages.
C9_Witness ==
    \E i, j \in Slots :
        /\ i < j /\ pc[i] = "GENERATING" /\ pc[j] = "DONE"
        /\ req[i].query # req[j].query
        /\ CitationsOf(i) # <<>> /\ CitationsOf(j) # <<>>

\* C10: whenever run_agent returns, whatever it returns, the chat endpoint
\* answers 200 with a body that has a response field.
C10_ReturnAnswered200 ==
    \A i \in Slots : (IsChat(i) /\ ret[i].t = "return") =>
        /\ resp[i].status = 200
        /\ "response" \in DOMAIN resp[i].body

\* the requests for GET /health
IsHealth(i) == req[i].route = "GET /health"

\* C11: GET /health is answered 200 with a body equal to {"status": "ok"} in
\* every state of the service, and no stage is called for it.
C11_HealthStatic ==
    \A i \in Slots : IsHealth(i) =>
        /\ resp[i] = [status |-> 200, body |-> [status |-> "ok"]]
        /\ ~Searched(i) /\ ~Asked(i)

\* A required field is missing from what the caller sent, or it is not JSON.
Malformed(i) ==
    \/ IsChat(i) /\ ~QueryRequest(req[i].body).ok
    \/ req[i].route = "call_tool" /\ req[i].tool = "query_steel_specs"
          /\ "query" \notin DOMAIN req[i].body.obj
    \/ req[i].route = "call_tool" /\ req[i].tool = "compare_materials"
          /\ "materials" \notin DOMAIN req[i].body.obj

\* C12: malformed input is rejected at once with a validation error (422 on
\* the chat endpoint) and no stage is called for it, on the chat endpoint and
\* in the call_tool handlers.
C12_MalformedRejected ==
    \A i \in Slots : Malformed(i) =>
        /\ ~Searched(i) /\ ~Asked(i)
        /\ IsChat(i) => resp[i].status = 422

\* a required setting is not in the environment
PartiallyConfigured == EnvVars \ env # {}

\* C13: when a required credential is missing at process start, no client
\* handle is built, the service never serves a request and the ingestion job
\* never does a step.
C13_FailFast ==
    PartiallyConfigured =>
        /\ handles = {}
        /\ server # "up"
        /\ \A i \in Slots : ~req[i].sent
        /\ worked = {}

\* What a step may do to query i once its retrieval is over: the context and
\* the citations stay; the model call is made on the context and the question
\* and its update changes the messages alone; run_agent returns the citations
\* that were in the state before the call.
AfterRetrieval(i) ==
    pc[i] \in {"GENERATING", "DONE", "FAILED"} =>
        /\ state'[i].context = state[i].context
        /\ state'[i].sources = state[i].sources
        /\ llmLog'[i] # llmLog[i] =>
              /\ pc[i] = "GENERATING"
              /\ Last(llmLog'[i]).prompt = Prompt(state[i].context, LastContent(state[i]))
        /\ (pc[i] = "GENERATING" /\ pc'[i] = "DONE") =>
              /\ DOMAIN state'[i] = DOMAIN state[i]
              /\ state'[i].messages = <<AIMessage(Last(llmLog'[i]).reply)>>
              /\ ret'[i].t = "return"
              /\ ret'[i].value.d.sources = state[i].sources

\* C14: the citations retrieve wrote are carried unchanged through generate
\* into the result: generate reads the context and the question, writes the
\* answer message only, and run_agent returns the citations retrieve returned.
C14_CitationsCarried ==
    /\ [](\A i \in Slots : pc[i] = "DONE" =>
              /\ ResultCitations(i) = CitationsOf(i)
              /\ ret[i].value.d.response = LastContent(state[i]))
    /\ [][\A i \in Slots : AfterRetrieval(i)]_vars

\* A query is done with citations, a context and an answer of the model.
C14_Witness ==
    \E i \in Slots :
        /\ pc[i] = "DONE" /\ ResultCitations(i) # <<>> /\ state[i].context # ""
        /\ ret[i].value.d.response = llmLog[i][1].reply

\* the p-th segment of the context of query i: marker, a space, the passage
Segment(i, p) == CitationsOf(i)[p].ref \o " " \o DocsOf(i)[p].page_content

\* the characters of the context of query i before its p-th segment
RECURSIVE SegmentStart(_, _)
SegmentStart(i, p) ==
    IF p = 1 THEN 0
    ELSE SegmentStart(i, p - 1) + Len(Segment(i, p - 1)) + Len("\n\n")

\* the characters of the prompt before the context
PromptHead == Len("Context (with source references):\n")

\* C15: the context handed to generate is the passages in retrieval order,
\* the p-th as the p-th citation's marker, a space and the passage text, with
\* a blank line between two of them and nothing else.
C15_ContextMatchesCitations ==
    \A i \in Slots : SearchOk(i) =>
        LET context == state[i].context
            n == Len(DocsOf(i))
        IN  /\ Len(CitationsOf(i)) = n
            /\ n = 0 => context = ""
            /\ n > 0 => Len(context) = SegmentStart(i, n) + Len(Segment(i, n))
            /\ \A p \in 1..n :
                  LET from == SegmentStart(i, p)
                  IN  /\ SubSeq(context, from + 1, from + Len(Segment(i, p)))
                            = Segment(i, p)
                      /\ p > 1 => SubSeq(context, from - 1, from) = "\n\n"
            /\ Asked(i) =>
                  SubSeq(llmLog[i][1].prompt, PromptHead + 1, PromptHead + Len(context))
                      = context

\* The model was asked on a context of K passages, one of them without text.
C15_Witness ==
    \E i \in Slots :
        /\ Asked(i) /\ Len(CitationsOf(i)) = K /\ state[i].context # ""
        /\ \E p \in 1..K : Segment(i, p) = CitationsOf(i)[p].ref \o " "

====
